---- MODULE Spec2Model ----
(***************************************************************************)
(* A model of the ImgToPrompt coordination layer:                          *)
(*   - StorageManager (src/src/utils/storage.ts): three localStorage keys  *)
(*     holding the analysis history, the API config and the user settings; *)
(*   - the zustand application store (src/src/store/useAppStore.ts), whose *)
(*     analyzeImage sequences an optional ImgBB upload and the OpenRouter  *)
(*     analysis call;                                                      *)
(*   - the two remote clients' key state and request outcomes.             *)
(*                                                                         *)
(* JSON values are modelled structurally.  A timestamp is a record         *)
(*   [k |-> "iso", t |-> n]   an ISO date string of instant n   (JSON)     *)
(*   [k |-> "null", t |-> 0]  JSON null                         (JSON)     *)
(*   [k |-> "junk", t |-> 0]  a string that is not a date       (JSON)     *)
(*   [k |-> "date", t |-> n]  a Date object of instant n      (memory)     *)
(*   [k |-> "invalid", t |-> 0]  an Invalid Date              (memory)     *)
(***************************************************************************)
EXTENDS Integers, Sequences, FiniteSets, TLC

(***************************************************************************)
(* Bounds of the model                                                     *)
(***************************************************************************)
\* record ids are drawn from 1..MaxId
MaxId == 2
\* instants are drawn from 0..MaxTime; 0 is the epoch
MaxTime == 2
\* saveRecord is taken only while the stored collection is shorter than this
MaxLen == 3
\* longest import payload
MaxImportLen == 2
\* analyzeImage is started only while the stored collection is shorter than this
MaxHistory == 2

(***************************************************************************)
(* Program constants                                                       *)
(***************************************************************************)
\* DEFAULT_USER_SETTINGS.maxHistoryItems
DEFAULT_MAX_HISTORY_ITEMS == 9000

Ids == 1..MaxId
\* the values of maxHistoryItems the settings are given
MaxValues == {-1, 0, 1, 2}

Min(a, b) == IF a < b THEN a ELSE b
Max(a, b) == IF a > b THEN a ELSE b

NoUrl == "undefined"

(***************************************************************************)
(* Date <-> JSON                                                           *)
(***************************************************************************)
IsoOf(n) == [k |-> "iso", t |-> n]
DateOf(n) == [k |-> "date", t |-> n]
JsonNull == [k |-> "null", t |-> 0]
JsonJunk == [k |-> "junk", t |-> 0]
InvalidDate == [k |-> "invalid", t |-> 0]

\* new Date(x) for a value x read from JSON
NewDate(x) ==
  CASE x.k = "iso" -> DateOf(x.t)
    [] x.k = "null" -> DateOf(0)
    [] x.k = "date" -> DateOf(x.t)
    [] OTHER -> InvalidDate

\* JSON.stringify of a timestamp field: Date.prototype.toJSON gives the ISO
\* string, or null for an Invalid Date; strings and null are kept
StringifyTimestamp(x) ==
  CASE x.k = "date" -> IsoOf(x.t)
    [] x.k = "invalid" -> JsonNull
    [] OTHER -> x

\* JSON.stringify of an array of records
Stringify(records) ==
  [i \in 1..Len(records) |->
     [records[i] EXCEPT !.timestamp = StringifyTimestamp(@)]]

(***************************************************************************)
(* localStorage items                                                      *)
(***************************************************************************)
Absent == [tag |-> "absent", val |-> <<>>]
Json(v) == [tag |-> "json", val |-> v]
\* text that does not parse
Garbage == [tag |-> "garbage", val |-> <<>>]
\* text that parses to a value of another shape than the key's (an object or
\* null under the history key, a number under a settings key)
Misshapen == [tag |-> "shape", val |-> <<>>]
\* the value such a text parses to
NotExpected == [unexpected |-> TRUE]

DEFAULT_API_CONFIG == [openRouterKey |-> "", imgbbKey |-> ""]
DEFAULT_USER_SETTINGS ==
  [language |-> "zh", autoSave |-> TRUE,
   maxHistoryItems |-> DEFAULT_MAX_HISTORY_ITEMS]

VARIABLES
  lsHistory,     \* localStorage['analysis_history']
  lsSettings,    \* localStorage['user_settings']
  lsApiConfig,   \* localStorage['api_config']
  lsFull,        \* TRUE when localStorage.setItem throws (quota exceeded)
  lastOp         \* the last StorageManager method called directly, and its result

storeVars == <<lsHistory, lsSettings, lsApiConfig, lsFull, lastOp>>

\* StorageManager.getItem: the parsed item, or the default when it is missing
\* or does not parse
GetItem(item, defaultValue) ==
  CASE item.tag = "json" -> item.val
    [] item.tag = "shape" -> NotExpected
    [] OTHER -> defaultValue

\* StorageManager.setItem: the new content of the key; a rejected write is
\* swallowed and leaves the key as it was
\* a setItem whose failure is not contained: the write is taken as done
SetItemIgnoresQuota(item, value) == Json(value)
SetItem(item, value) ==
  IF lsFull THEN item ELSE Json(value)

\* StorageManager.getAnalysisHistory
GetAnalysisHistory(item) ==
  LET history == GetItem(item, <<>>)
  IN  [i \in 1..Len(history) |->
         [history[i] EXCEPT !.timestamp = NewDate(@)]]

\* StorageManager.getUserSettings
GetUserSettings(item) == GetItem(item, DEFAULT_USER_SETTINGS)

\* StorageManager.getApiConfig
GetApiConfig(item) == GetItem(item, DEFAULT_API_CONFIG)

\* Array.prototype.splice(start) with one argument: what is left in the array
Splice(arr, start) ==
  LET from == IF start < 0 THEN Max(Len(arr) + start, 0)
                           ELSE Min(start, Len(arr))
  IN  SubSeq(arr, 1, from)

\* Array.prototype.filter
RECURSIVE FilterIdx(_, _, _)
FilterIdx(s, keep, i) ==
  IF i > Len(s) THEN <<>>
  ELSE (IF i \in keep THEN <<s[i]>> ELSE <<>>) \o FilterIdx(s, keep, i + 1)

\* self.findIndex(r => r.id === record.id) for the record at index i
FindIndex(s, id) ==
  IF \E j \in 1..Len(s) : s[j].id = id
  THEN CHOOSE j \in 1..Len(s) :
         s[j].id = id /\ \A k \in 1..(j - 1) : s[k].id # id
  ELSE 0

\* the array written by StorageManager.saveAnalysisRecord
SaveAppend(historyItem, settingsItem, record) ==
  LET updatedHistory == GetAnalysisHistory(historyItem) \o <<record>>
      settings == GetUserSettings(settingsItem)
  IN  IF Len(updatedHistory) > settings.maxHistoryItems
      THEN Splice(updatedHistory, settings.maxHistoryItems)
      ELSE updatedHistory
Storage_saveAnalysisRecord(historyItem, settingsItem, record) ==
  LET history == GetAnalysisHistory(historyItem)
      updatedHistory == <<record>> \o history
      settings == GetUserSettings(settingsItem)
  IN  IF Len(updatedHistory) > settings.maxHistoryItems
      THEN Splice(updatedHistory, settings.maxHistoryItems)
      ELSE updatedHistory

\* the array written by StorageManager.deleteAnalysisRecord
Storage_deleteAnalysisRecord(historyItem, id) ==
  LET history == GetAnalysisHistory(historyItem)
  IN  FilterIdx(history, {i \in 1..Len(history) : history[i].id # id}, 1)

\* the array written by StorageManager.importAnalysisHistory for a payload
\* that parses to an array
ImportKeepLast(historyItem, jsonData) ==
  LET merged == GetAnalysisHistory(historyItem) \o jsonData.val
  IN  FilterIdx(merged,
                {i \in 1..Len(merged) : i = FindIndex(merged, merged[i].id)}, 1)
ImportNoDedup(historyItem, jsonData) ==
  jsonData.val \o GetAnalysisHistory(historyItem)
Storage_importMerge(historyItem, jsonData) ==
  LET importedHistory == jsonData.val
      currentHistory == GetAnalysisHistory(historyItem)
      mergedHistory == importedHistory \o currentHistory
  IN  FilterIdx(mergedHistory,
                {i \in 1..Len(mergedHistory) :
                   i = FindIndex(mergedHistory, mergedHistory[i].id)}, 1)

\* a payload that does not parse, or parses to something that is not an
\* array, throws inside the try block: false is returned, nothing is written
ImportAcceptsObjects(jsonData) == jsonData.tag \in {"json", "object"}
Storage_importOk(jsonData) == jsonData.tag = "json"

\* StorageManager.exportAnalysisHistory: the text returned
Storage_exportAnalysisHistory(historyItem) ==
  Json(Stringify(GetAnalysisHistory(historyItem)))

(***************************************************************************)
(* The application store (useAppStore) and the remote clients              *)
(***************************************************************************)
\* analyzeImage invocations that can be in flight together
MaxInFlight == 2
Inv == 1..MaxInFlight

Null == [null |-> TRUE]
NoFile == "null"

\* intakes the pages build: a dropped file and a submitted URL
FileIntake(n) ==
  [file |-> "file_" \o n, preview |-> "blob_" \o n, name |-> n,
   url |-> NoUrl, isUrl |-> FALSE]
UrlIntake ==
  [file |-> NoFile, preview |-> "http_u", name |-> "u",
   url |-> "http_u", isUrl |-> TRUE]
Intakes == {FileIntake("a"), UrlIntake}

\* the URL a successful hosting upload returns
HostedUrl == "hosted"

\* the keys the settings page saves for a service: it trims what was typed, so
\* a key is empty or set
KeyInputs(field) == {"", "k"}
\* String.prototype.trim on a key (" " is a key of blanks)
TrimKey(key) == IF key = " " THEN "" ELSE key
\* a string is truthy unless it is empty
Truthy(str) == str # ""

\* completion texts and String.prototype.trim on them
Contents == {" p1 "}
Trim(content) == IF content = " p1 " THEN "p1" ELSE content

\* outcomes of the analysis HTTP call
AnalysisResponses ==
  {[kind |-> "ok", content |-> c, status |-> 200] : c \in Contents}
  \cup {[kind |-> "noChoices", content |-> "", status |-> 200],
        [kind |-> "ok", content |-> "", status |-> 200],
        [kind |-> "noResponse", content |-> "", status |-> 0]}
  \cup {[kind |-> "http", content |-> "", status |-> st] : st \in {401}}

\* outcomes of the hosting HTTP call
UploadResponses ==
  {[kind |-> "ok", success |-> TRUE, status |-> 200],
   [kind |-> "ok", success |-> FALSE, status |-> 200],
   [kind |-> "http", success |-> FALSE, status |-> 500],
   [kind |-> "noResponse", success |-> FALSE, status |-> 0]}

VARIABLES
  currentImage, isAnalyzing, isUploading, analysisResult, error,
  history, apiConfig, userSettings,   \* the zustand state
  orKey,         \* openRouterApi.apiKey
  ibKey,         \* imgbbApi.apiKey
  inv,           \* the analyzeImage invocations
  now,           \* Date.now()
  liveRefs,      \* object URLs created and not yet revoked
  proc,          \* the processImageFile invocation
  drop,          \* the onDrop invocation of the analyze page
  tests          \* the testApiKey invocations and the keys they began over

coordVars == <<currentImage, isAnalyzing, isUploading, analysisResult, error,
               history, apiConfig, userSettings>>
clientVars == <<orKey, ibKey>>
intakeVars == <<liveRefs, proc, drop>>
vars == <<storeVars, coordVars, clientVars, inv, now, intakeVars, tests>>

\* the two remote clients, each holding its key in a private field
Clients == {"openRouter", "imgbb"}
\* testApiKey invocations that can be in flight together
MaxTests == 2
\* a testApiKey invocation: the client it runs on and its originalKey local
IdleTest == [pc |-> "idle", client |-> "none", originalKey |-> ""]

\* a processImageFile or onDrop invocation: where it is suspended, the file it
\* was given and how it last ended
IdleIntake == [pc |-> "idle", file |-> Null, outcome |-> "none"]

\* an invocation slot: where it is suspended, what it captured from get() and
\* still uses (the intake, userSettings.autoSave), the requests it has issued,
\* the source it passed to the analysis client and how it last returned
IdleInv ==
  [pc |-> "idle", image |-> Null, autoSave |-> TRUE,
   upReq |-> 0, anReq |-> 0, source |-> "none", outcome |-> "none"]

Init ==
  /\ lsHistory = Absent
  /\ lsSettings = Absent
  /\ lsApiConfig = Absent
  /\ lsFull = FALSE
  /\ lastOp = [name |-> "none", arg |-> [null |-> TRUE], ret |-> TRUE,
               again |-> FALSE]
  /\ currentImage = Null
  /\ isAnalyzing = FALSE
  /\ isUploading = FALSE
  /\ analysisResult = Null
  /\ error = Null
  /\ history = <<>>
  /\ apiConfig = GetApiConfig(lsApiConfig)
  /\ userSettings = GetUserSettings(lsSettings)
  /\ orKey = ""
  /\ ibKey = ""
  /\ inv = [i \in Inv |-> IdleInv]
  /\ now = 1
  /\ liveRefs = {}
  /\ proc = IdleIntake
  /\ drop = IdleIntake
  /\ tests = [slots |-> [t \in 1..MaxTests |-> IdleTest],
              base |-> [c \in Clients |-> ""]]

\* OpenRouterApiService.validateApiKey / ImgBBApiService.validateApiKey
ValidateApiKey(key) == Truthy(key) /\ Len(TrimKey(key)) > 0

(***************************************************************************)
(* Synchronous operations of the application store                         *)
(***************************************************************************)
setCurrentImage(image) ==
  /\ currentImage' = image
  /\ analysisResult' = Null
  /\ UNCHANGED <<storeVars, isAnalyzing, isUploading, error, history, apiConfig,
                 userSettings, clientVars, inv, now,
                 intakeVars, tests>>

\* URL.revokeObjectURL(url): the reference is released if it is live
RevokeObjectURL(refs, url) == refs \ {url}
\* the references left by clearCurrentImage for the intake it finds
ClearRevokes(refs, image) ==
  IF image # Null /\ Truthy(image.preview)
  THEN RevokeObjectURL(refs, image.preview)
  ELSE refs

clearCurrentImage ==
  /\ liveRefs' = ClearRevokes(liveRefs, currentImage)
  /\ currentImage' = Null
  /\ analysisResult' = Null
  /\ UNCHANGED <<storeVars, isAnalyzing, isUploading, error, history, apiConfig,
                 userSettings, clientVars, inv, now, proc, drop, tests>>

clearError ==
  /\ error' = Null
  /\ UNCHANGED <<storeVars, currentImage, isAnalyzing, isUploading, analysisResult,
                 history, apiConfig, userSettings, clientVars, inv, now,
                 intakeVars, tests>>

\* updateApiConfig with a partial config that sets one key
updateApiConfig(field, key) ==
  LET updatedConfig == [apiConfig EXCEPT ![field] = key]
  IN  /\ lsApiConfig' = SetItem(lsApiConfig, updatedConfig)
      /\ apiConfig' = updatedConfig
      /\ orKey' = IF field = "openRouterKey" /\ Truthy(key) THEN key ELSE orKey
      /\ ibKey' = IF field = "imgbbKey" /\ Truthy(key) THEN key ELSE ibKey
      /\ UNCHANGED <<lsHistory, lsSettings, lsFull, lastOp, currentImage, isAnalyzing,
                     isUploading, analysisResult, error, history, userSettings,
                     inv, now,
                 intakeVars, tests>>

\* updateUserSettings with a partial settings object that sets one field
updateUserSettings(field, value) ==
  LET updatedSettings == [userSettings EXCEPT ![field] = value]
  IN  /\ lsSettings' = SetItem(lsSettings, updatedSettings)
      /\ userSettings' = updatedSettings
      /\ UNCHANGED <<lsHistory, lsApiConfig, lsFull, lastOp, currentImage, isAnalyzing,
                     isUploading, analysisResult, error, history, apiConfig,
                     clientVars, inv, now,
                 intakeVars, tests>>

\* deleteHistoryItem: the Store's delete, then loadHistory
deleteHistoryItem(id) ==
  /\ lsHistory' = SetItem(lsHistory,
        Stringify(Storage_deleteAnalysisRecord(lsHistory, id)))
  /\ history' = GetAnalysisHistory(lsHistory')
  /\ UNCHANGED <<lsSettings, lsApiConfig, lsFull, lastOp, currentImage, isAnalyzing,
                 isUploading, analysisResult, error, apiConfig, userSettings,
                 clientVars, inv, now,
                 intakeVars, tests>>

\* clearHistory: the Store's clear, then loadHistory
clearHistory ==
  /\ lsHistory' = SetItem(lsHistory, <<>>)
  /\ history' = GetAnalysisHistory(lsHistory')
  /\ UNCHANGED <<lsSettings, lsApiConfig, lsFull, lastOp, currentImage, isAnalyzing,
                 isUploading, analysisResult, error, apiConfig, userSettings,
                 clientVars, inv, now,
                 intakeVars, tests>>

\* the clock advances
Tick ==
  /\ now < MaxTime
  /\ now' = now + 1
  /\ UNCHANGED <<storeVars, coordVars, clientVars, inv,
                 intakeVars, tests>>

(***************************************************************************)
(* analyzeImage                                                            *)
(*                                                                         *)
(* An invocation runs atomically from one suspension to the next.  It is   *)
(* suspended while a FileReader encodes the file ("encodeUpload",          *)
(* "encodeAnalysis") and while an HTTP request is in flight ("uploading",  *)
(* "analyzing").  A promise that is rejected without waiting for either    *)
(* (a missing key, a file that is null) is handled in the same step.       *)
(***************************************************************************)
Err(message) == [message |-> message]

\* the preconditions of analyzeImage (useAppStore.ts:152-160): the message of
\* the error set, "" when they pass
PrecheckIgnoresKey(image, config) ==
  IF image = Null THEN "SelectImage" ELSE ""
Precheck(image, config) ==
  IF image = Null THEN "SelectImage"
  ELSE IF ~Truthy(config.openRouterKey) THEN "SetOpenRouterKey"
  ELSE ""

\* openRouterApi.analyzeImage up to its first suspension, for the key the
\* client holds, the captured intake and the kind of source passed: where the
\* caller is left, the message thrown if any, and the requests issued
AnalysisEntry(key, image, kind) ==
  IF ~ValidateApiKey(key)
  THEN [pc |-> "idle", err |-> "SetOpenRouterKey", req |-> 0]
  ELSE IF kind = "url"
  THEN [pc |-> "analyzing", err |-> "", req |-> 1]
  ELSE IF image.file = NoFile
  THEN [pc |-> "idle", err |-> "NetworkFailure", req |-> 0]
  ELSE [pc |-> "encodeAnalysis", err |-> "", req |-> 0]

\* the message openRouterApi.analyzeImage throws for an HTTP outcome, "" when
\* it returns the trimmed content
AnalysisErrorSwallowed(resp) == ""
AnalysisError(resp) ==
  CASE resp.kind = "noChoices" -> "NetworkFailure"
    [] resp.kind = "ok" /\ ~Truthy(resp.content) -> "NetworkFailure"
    [] resp.kind = "ok" -> ""
    [] resp.kind = "http" /\ resp.status = 401 -> "ApiKeyInvalid"
    [] resp.kind = "http" /\ resp.status = 403 -> "AccessDenied"
    [] resp.kind = "http" /\ resp.status = 429 -> "RateLimited"
    [] resp.kind = "http" /\ resp.status = 500 -> "ServerError"
    [] OTHER -> "RequestFailed"

\* the slot of an invocation that has returned: its locals (the captured
\* intake and settings) are gone, what it did remains on record
Returned(cur, outcome) ==
  [cur EXCEPT !.pc = "idle", !.outcome = outcome,
              !.image = IdleInv.image, !.autoSave = IdleInv.autoSave]

\* the catch and finally blocks of analyzeImage (useAppStore.ts:213-222) for
\* an invocation whose slot holds cur
CatchNoFinally(i, cur, message) ==
  /\ inv' = [inv EXCEPT ![i] = Returned(cur, "failed")]
  /\ error' = Err(message)
  /\ isAnalyzing' = TRUE
CatchFinally(i, cur, message) ==
  /\ inv' = [inv EXCEPT ![i] = Returned(cur, "failed")]
  /\ error' = Err(message)
  /\ isAnalyzing' = FALSE

\* the invocation whose slot holds cur calls the analysis client with a source
\* of the given kind (useAppStore.ts:194)
CallAnalysis(i, cur, kind) ==
  LET entry == AnalysisEntry(orKey', cur.image, kind)
      called == [cur EXCEPT !.source = IF kind = "url" THEN HostedUrl
                                       ELSE cur.image.file]
  IN  IF entry.err # ""
      THEN CatchFinally(i, called, entry.err)
      ELSE /\ inv' = [inv EXCEPT ![i] =
                        [called EXCEPT !.pc = entry.pc, !.anReq = @ + entry.req]]
           /\ UNCHANGED <<error, isAnalyzing>>

\* the slot of an invocation that has passed the preconditions
\* (useAppStore.ts:150,163)
Started ==
  [IdleInv EXCEPT !.image = currentImage, !.autoSave = userSettings.autoSave,
                  !.outcome = "running"]

\* analyzeImage from its call to its first suspension (or to its return)
analyzeImage(i) ==
  /\ inv[i].pc = "idle"
  /\ Len(GetItem(lsHistory, <<>>)) < MaxHistory
  /\ IF Precheck(currentImage, apiConfig) # ""
     THEN /\ error' = Err(Precheck(currentImage, apiConfig))
          /\ inv' = [inv EXCEPT ![i] = [IdleInv EXCEPT !.outcome = "rejected"]]
          /\ UNCHANGED <<isAnalyzing, orKey, ibKey>>
     ELSE /\ orKey' = apiConfig.openRouterKey
          /\ IF Truthy(apiConfig.imgbbKey) /\ currentImage.file # NoFile
             THEN /\ ibKey' = apiConfig.imgbbKey
                  /\ inv' = [inv EXCEPT ![i] = [Started EXCEPT !.pc = "encodeUpload"]]
                  /\ error' = Null
                  /\ isAnalyzing' = TRUE
             ELSE /\ ibKey' = IF Truthy(apiConfig.imgbbKey)
                              THEN apiConfig.imgbbKey ELSE ibKey
                  /\ LET entry == AnalysisEntry(orKey', currentImage, "file")
                         called == [Started EXCEPT !.source = currentImage.file]
                     IN  IF entry.err # ""
                         THEN CatchFinally(i, called, entry.err)
                         ELSE /\ inv' = [inv EXCEPT ![i] =
                                     [called EXCEPT !.pc = entry.pc,
                                                    !.anReq = @ + entry.req]]
                              /\ error' = Null
                              /\ isAnalyzing' = TRUE
  /\ UNCHANGED <<storeVars, currentImage, isUploading, analysisResult, history,
                 apiConfig, userSettings, now,
                 intakeVars, tests>>

\* fileToBase64 inside uploadImageToImgBB completes; on success
\* imgbbApi.uploadImage issues the request unless the client has no key
EncodeUploadEager(i, ok) ==
  /\ inv[i].pc = "encodeUpload"
  /\ UNCHANGED clientVars
  /\ IF ok /\ ValidateApiKey(ibKey)
     THEN /\ inv' = [inv EXCEPT ![i].pc = "uploading", ![i].upReq = @ + 1,
                                ![i].anReq = @ + 1]
          /\ UNCHANGED <<error, isAnalyzing>>
     ELSE CallAnalysis(i, inv[i], "file")
  /\ UNCHANGED <<storeVars, currentImage, isUploading, analysisResult, history,
                 apiConfig, userSettings, now,
                 intakeVars, tests>>
encodeUploadDone(i, ok) ==
  /\ inv[i].pc = "encodeUpload"
  /\ UNCHANGED clientVars
  /\ IF ok /\ ValidateApiKey(ibKey)
     THEN /\ inv' = [inv EXCEPT ![i].pc = "uploading", ![i].upReq = @ + 1]
          /\ UNCHANGED <<error, isAnalyzing>>
     ELSE CallAnalysis(i, inv[i], "file")
  /\ UNCHANGED <<storeVars, currentImage, isUploading, analysisResult, history,
                 apiConfig, userSettings, now,
                 intakeVars, tests>>

\* the hosting request completes
UploadFatal(i, resp) ==
  /\ inv[i].pc = "uploading"
  /\ UNCHANGED clientVars
  /\ IF resp.kind = "ok" /\ resp.success
     THEN /\ currentImage' = [inv[i].image EXCEPT !.url = HostedUrl]
          /\ CallAnalysis(i, inv[i], "url")
     ELSE /\ currentImage' = currentImage
          /\ CatchFinally(i, inv[i], "UploadFailed")
  /\ UNCHANGED <<storeVars, isUploading, analysisResult, history,
                 apiConfig, userSettings, now,
                 intakeVars, tests>>
uploadDone(i, resp) ==
  /\ inv[i].pc = "uploading"
  /\ UNCHANGED clientVars
  /\ IF resp.kind = "ok" /\ resp.success
     THEN /\ currentImage' = [inv[i].image EXCEPT !.url = HostedUrl]
          /\ CallAnalysis(i, inv[i], "url")
     ELSE /\ currentImage' = currentImage
          /\ CallAnalysis(i, inv[i], "file")
  /\ UNCHANGED <<storeVars, isUploading, analysisResult, history,
                 apiConfig, userSettings, now,
                 intakeVars, tests>>

\* fileToBase64 inside openRouterApi.analyzeImage completes
encodeAnalysisDone(i, ok) ==
  /\ inv[i].pc = "encodeAnalysis"
  /\ IF ok
     THEN /\ inv' = [inv EXCEPT ![i].pc = "analyzing", ![i].anReq = @ + 1]
          /\ UNCHANGED <<error, isAnalyzing>>
     ELSE CatchFinally(i, inv[i], "NetworkFailure")
  /\ UNCHANGED <<storeVars, currentImage, isUploading, analysisResult, history,
                 apiConfig, userSettings, clientVars, now,
                 intakeVars, tests>>

\* generateImageId: `img_${Date.now()}_${random}`; ids generated at different
\* instants differ, and the random suffix is the same for every id
generateImageId == now

\* the record analyzeImage builds from the returned text
AnalysisRecord(id, image, content) ==
  [id |-> id, imageName |-> image.name, imageUrl |-> image.url,
   prompt |-> Trim(content), timestamp |-> DateOf(now)]

\* the analysis request completes: on success the record is published and,
\* with autoSave, saved through the Store and the history reloaded
analysisDone(i, resp) ==
  /\ inv[i].pc = "analyzing"
  /\ IF AnalysisError(resp) = ""
     THEN LET record == AnalysisRecord(generateImageId, inv[i].image,
                                       resp.content)
          IN  /\ analysisResult' = record
              /\ IF inv[i].autoSave
                 THEN /\ lsHistory' = SetItem(lsHistory,
                            Stringify(Storage_saveAnalysisRecord(lsHistory, lsSettings, record)))
                      /\ history' = GetAnalysisHistory(lsHistory')
                 ELSE UNCHANGED <<lsHistory, history>>
              /\ inv' = [inv EXCEPT ![i] = Returned(inv[i], "succeeded")]
              /\ error' = error
              /\ isAnalyzing' = FALSE
     ELSE /\ CatchFinally(i, inv[i], AnalysisError(resp))
          /\ UNCHANGED <<analysisResult, lsHistory, history>>
  /\ UNCHANGED <<lsSettings, lsApiConfig, lsFull, lastOp, currentImage, isUploading,
                 apiConfig, userSettings, clientVars, now,
                 intakeVars, tests>>

\* the steps by which a suspended invocation resumes
Resume(i) ==
  \/ \E ok \in BOOLEAN : encodeUploadDone(i, ok)
  \/ \E resp \in UploadResponses : uploadDone(i, resp)
  \/ \E ok \in BOOLEAN : encodeAnalysisDone(i, ok)
  \/ \E resp \in AnalysisResponses : analysisDone(i, resp)

\* the values the settings surface writes
SettingsMaxValues == {-1, 1, DEFAULT_MAX_HISTORY_ITEMS}

\* The application with analyzeImage started by the analyze button, which is
\* disabled while isAnalyzing (Analyze.tsx:273-276)
handleAnalyze ==
  /\ ~isAnalyzing
  /\ analyzeImage(1)

Next ==
  \/ \E image \in Intakes : setCurrentImage(image)
  \/ clearCurrentImage
  \/ clearError
  \/ \E field \in {"openRouterKey", "imgbbKey"} :
        \E key \in KeyInputs(field) : updateApiConfig(field, key)
  \/ \E b \in BOOLEAN : updateUserSettings("autoSave", b)
  \/ \E m \in SettingsMaxValues : updateUserSettings("maxHistoryItems", m)
  \/ \E k \in 1..Len(history) : deleteHistoryItem(history[k].id)
  \/ clearHistory
  \/ Tick
  \/ handleAnalyze
  \/ Resume(1)

Spec == Init /\ [][Next]_vars

(***************************************************************************)
(* StorageManager methods called directly                                  *)
(***************************************************************************)
\* records handed to saveAnalysisRecord (timestamps are Date objects)
RecordInputs ==
  {[id |-> id, imageName |-> "a", imageUrl |-> NoUrl, prompt |-> "p1",
    timestamp |-> DateOf(1)] : id \in Ids}

\* entries of an import payload (parsed JSON): a well-formed entry for every
\* id, and one whose timestamp is not a date
ImportEntries ==
  {[id |-> id, imageName |-> "a", imageUrl |-> NoUrl, prompt |-> "p1",
    timestamp |-> IsoOf(MaxTime)] : id \in Ids}
  \cup {[id |-> 1, imageName |-> "a", imageUrl |-> NoUrl, prompt |-> "p1",
         timestamp |-> JsonJunk]}

\* what a payload that is not an array of entries is: text that does not
\* parse, or text that parses to an object, a number, a string or null
NotArrayTags == {"garbage", "object", "number", "string", "null"}

\* import payloads: arrays of entries, and one payload of each other kind
ImportTexts ==
  {Json(<<>>)}
  \cup UNION {{Json(s) : s \in [1..n -> ImportEntries]} : n \in 1..MaxImportLen}
  \cup {[tag |-> t, val |-> <<>>] : t \in NotArrayTags}

\* the record of a call: the method, its argument, what it returned, and,
\* for an import, whether it repeats the call before it (same argument)
Called(name, arg, ret) ==
  [name |-> name, arg |-> arg, ret |-> ret,
   again |-> (name = "importAnalysisHistory" /\ lastOp.name = name
                /\ lastOp.arg = arg)]

StorageSaveRecord(record) ==
  /\ Len(GetItem(lsHistory, <<>>)) < MaxLen
  /\ lsHistory' = SetItem(lsHistory,
        Stringify(Storage_saveAnalysisRecord(lsHistory, lsSettings, record)))
  /\ lastOp' = Called("saveAnalysisRecord", record, TRUE)
  /\ UNCHANGED <<lsSettings, lsApiConfig, lsFull, coordVars, clientVars, inv, now,
                 intakeVars, tests>>

StorageDeleteRecord(id) ==
  /\ lsHistory' = SetItem(lsHistory,
        Stringify(Storage_deleteAnalysisRecord(lsHistory, id)))
  /\ lastOp' = Called("deleteAnalysisRecord", [id |-> id], TRUE)
  /\ UNCHANGED <<lsSettings, lsApiConfig, lsFull, coordVars, clientVars, inv, now,
                 intakeVars, tests>>

StorageClearHistory ==
  /\ lsHistory' = SetItem(lsHistory, <<>>)
  /\ lastOp' = Called("clearAnalysisHistory", Null, TRUE)
  /\ UNCHANGED <<lsSettings, lsApiConfig, lsFull, coordVars, clientVars, inv, now,
                 intakeVars, tests>>

StorageImport(jsonData) ==
  /\ IF Storage_importOk(jsonData)
     THEN /\ lsHistory' = SetItem(lsHistory,
                 Stringify(Storage_importMerge(lsHistory, jsonData)))
          /\ lastOp' = Called("importAnalysisHistory", jsonData, TRUE)
     ELSE /\ lsHistory' = lsHistory
          /\ lastOp' = Called("importAnalysisHistory", jsonData, FALSE)
  /\ UNCHANGED <<lsSettings, lsApiConfig, lsFull, coordVars, clientVars, inv, now,
                 intakeVars, tests>>

\* StorageManager.saveUserSettings
StorageSaveUserSettings(settings) ==
  /\ lsSettings' = SetItem(lsSettings, settings)
  /\ lastOp' = Called("saveUserSettings", settings, TRUE)
  /\ UNCHANGED <<lsHistory, lsApiConfig, lsFull, coordVars, clientVars, inv, now,
                 intakeVars, tests>>

NextStore ==
  \/ \E record \in RecordInputs : StorageSaveRecord(record)
  \/ \E id \in Ids : StorageDeleteRecord(id)
  \/ StorageClearHistory
  \/ \E jsonData \in ImportTexts : StorageImport(jsonData)
  \/ \E m \in MaxValues :
        StorageSaveUserSettings([DEFAULT_USER_SETTINGS EXCEPT !.maxHistoryItems = m])

SpecStore == Init /\ [][NextStore]_vars

(***************************************************************************)
(* StorageManager reads over a localStorage that something else (another   *)
(* tab, the user, a failed migration) has written                          *)
(***************************************************************************)
\* what a read gives its caller: a value, or an exception
ReadValue(v) == [threw |-> FALSE, val |-> v]
ReadThrew == [threw |-> TRUE, val |-> Null]

\* getAnalysisHistory as its caller sees it: history.map throws a TypeError
\* when the parsed value is not an array
Read_getAnalysisHistory(item) ==
  IF item.tag = "shape" THEN ReadThrew ELSE ReadValue(GetAnalysisHistory(item))
Read_getUserSettings(item) == ReadValue(GetUserSettings(item))
Read_getApiConfig(item) == ReadValue(GetApiConfig(item))

ReadNames == {"getAnalysisHistory", "getUserSettings", "getApiConfig"}
\* the key a read reads, its result and its documented default
ReadItem(name) ==
  CASE name = "getAnalysisHistory" -> lsHistory
    [] name = "getUserSettings" -> lsSettings
    [] name = "getApiConfig" -> lsApiConfig
ReadResult(name) ==
  CASE name = "getAnalysisHistory" -> Read_getAnalysisHistory(lsHistory)
    [] name = "getUserSettings" -> Read_getUserSettings(lsSettings)
    [] name = "getApiConfig" -> Read_getApiConfig(lsApiConfig)
ReadDefault(name) ==
  CASE name = "getAnalysisHistory" -> <<>>
    [] name = "getUserSettings" -> DEFAULT_USER_SETTINGS
    [] name = "getApiConfig" -> DEFAULT_API_CONFIG

\* contents a key can be given from outside
ForeignItems(key) ==
  {Absent, Garbage, Misshapen}
  \cup (CASE key = "analysis_history" ->
               {Json(<<>>)} \cup {Json(Stringify(<<r>>)) : r \in RecordInputs}
          [] key = "user_settings" ->
               {Json([DEFAULT_USER_SETTINGS EXCEPT !.autoSave = FALSE])}
          [] key = "api_config" ->
               {Json([DEFAULT_API_CONFIG EXCEPT !.openRouterKey = "k"])})

ForeignWrite(key, item) ==
  /\ lsHistory' = IF key = "analysis_history" THEN item ELSE lsHistory
  /\ lsSettings' = IF key = "user_settings" THEN item ELSE lsSettings
  /\ lsApiConfig' = IF key = "api_config" THEN item ELSE lsApiConfig
  /\ lastOp' = Called("foreignWrite", Null, TRUE)
  /\ UNCHANGED <<lsFull, coordVars, clientVars, inv, now,
                 intakeVars, tests>>

StorageRead(name) ==
  /\ lastOp' = Called(name, Null, ReadResult(name))
  /\ UNCHANGED <<lsHistory, lsSettings, lsApiConfig, lsFull, coordVars,
                 clientVars, inv, now,
                 intakeVars, tests>>

NextRead ==
  \/ \E key \in {"analysis_history", "user_settings", "api_config"} :
        \E item \in ForeignItems(key) : ForeignWrite(key, item)
  \/ \E name \in ReadNames : StorageRead(name)
  \/ StorageClearHistory
  \/ \E m \in MaxValues :
        StorageSaveUserSettings([DEFAULT_USER_SETTINGS EXCEPT !.maxHistoryItems = m])

SpecRead == Init /\ [][NextRead]_vars

(***************************************************************************)
(* The application store over a localStorage that may reject writes        *)
(***************************************************************************)
\* The write-through operations of the application store, each leaving a
\* record of the call (useAppStore.ts:232-275)
CallSaveAnalysisRecord(record) ==
  /\ Len(GetItem(lsHistory, <<>>)) < MaxLen
  /\ lsHistory' = SetItem(lsHistory,
        Stringify(Storage_saveAnalysisRecord(lsHistory, lsSettings, record)))
  /\ history' = GetAnalysisHistory(lsHistory')
  /\ lastOp' = Called("saveAnalysisRecord", record, TRUE)
  /\ UNCHANGED <<lsSettings, lsApiConfig, lsFull, currentImage, isAnalyzing,
                 isUploading, analysisResult, error, apiConfig, userSettings,
                 clientVars, inv, now,
                 intakeVars, tests>>

CallDeleteHistoryItem(id) ==
  /\ lsHistory' = SetItem(lsHistory,
        Stringify(Storage_deleteAnalysisRecord(lsHistory, id)))
  /\ history' = GetAnalysisHistory(lsHistory')
  /\ lastOp' = Called("deleteHistoryItem", [id |-> id], TRUE)
  /\ UNCHANGED <<lsSettings, lsApiConfig, lsFull, currentImage, isAnalyzing,
                 isUploading, analysisResult, error, apiConfig, userSettings,
                 clientVars, inv, now,
                 intakeVars, tests>>

CallClearHistory ==
  /\ lsHistory' = SetItem(lsHistory, <<>>)
  /\ history' = GetAnalysisHistory(lsHistory')
  /\ lastOp' = Called("clearHistory", Null, TRUE)
  /\ UNCHANGED <<lsSettings, lsApiConfig, lsFull, currentImage, isAnalyzing,
                 isUploading, analysisResult, error, apiConfig, userSettings,
                 clientVars, inv, now,
                 intakeVars, tests>>

CallUpdateApiConfig(key) ==
  LET updatedConfig == [apiConfig EXCEPT !.openRouterKey = key]
  IN  /\ lsApiConfig' = SetItem(lsApiConfig, updatedConfig)
      /\ apiConfig' = updatedConfig
      /\ orKey' = IF Truthy(key) THEN key ELSE orKey
      /\ lastOp' = Called("updateApiConfig", [openRouterKey |-> key], TRUE)
      /\ UNCHANGED <<lsHistory, lsSettings, lsFull, currentImage, isAnalyzing,
                     isUploading, analysisResult, error, history, userSettings,
                     ibKey, inv, now,
                 intakeVars, tests>>

CallUpdateUserSettings(autoSave) ==
  LET updatedSettings == [userSettings EXCEPT !.autoSave = autoSave]
  IN  /\ lsSettings' = SetItem(lsSettings, updatedSettings)
      /\ userSettings' = updatedSettings
      /\ lastOp' = Called("updateUserSettings", [autoSave |-> autoSave], TRUE)
      /\ UNCHANGED <<lsHistory, lsApiConfig, lsFull, currentImage, isAnalyzing,
                     isUploading, analysisResult, error, history, apiConfig,
                     clientVars, inv, now,
                 intakeVars, tests>>

\* localStorage runs out of room, or room is made: from then on setItem
\* throws (and StorageManager.setItem swallows it), or succeeds again
QuotaChange ==
  /\ lsFull' = ~lsFull
  /\ UNCHANGED <<lsHistory, lsSettings, lsApiConfig, lastOp, coordVars,
                 clientVars, inv, now,
                 intakeVars, tests>>

NextQuota ==
  \/ QuotaChange
  \/ \E record \in RecordInputs : CallSaveAnalysisRecord(record)
  \/ \E id \in Ids : CallDeleteHistoryItem(id)
  \/ CallClearHistory
  \/ \E key \in KeyInputs("openRouterKey") : CallUpdateApiConfig(key)
  \/ \E b \in BOOLEAN : CallUpdateUserSettings(b)

SpecQuota == Init /\ [][NextQuota]_vars

\* the collection a history operation tries to write, as a later read
\* would return it
Attempted(records) == GetAnalysisHistory(Json(Stringify(records)))

\* C16 (under SpecQuota), as stated: while localStorage rejects writes, every
\* write-through operation of the application store leaves the in-memory
\* table it writes (apiConfig, userSettings, history) at the attempted new
\* value.
C16_MemoryHoldsAttemptedValue ==
  [][(lsFull /\ lastOp' # lastOp) =>
       LET name == lastOp'.name
           arg == lastOp'.arg
       IN  /\ name = "updateApiConfig" =>
                apiConfig' = [apiConfig EXCEPT !.openRouterKey = arg.openRouterKey]
           /\ name = "updateUserSettings" =>
                userSettings' = [userSettings EXCEPT !.autoSave = arg.autoSave]
           /\ name = "saveAnalysisRecord" =>
                history' = Attempted(Storage_saveAnalysisRecord(lsHistory, lsSettings, arg))
           /\ name = "deleteHistoryItem" =>
                history' = Attempted(Storage_deleteAnalysisRecord(lsHistory, arg.id))
           /\ name = "clearHistory" => history' = <<>>
    ]_vars

\* C16 (under SpecQuota), amended: while localStorage rejects writes, no
\* write-through operation fails or changes what is stored; apiConfig and
\* userSettings hold the attempted new value, and history holds what the
\* Store still returns, the collection as it was stored before the write.
C16_MemoryHoldsAttemptedConfigAndStoredHistory ==
  [][(lsFull /\ lastOp' # lastOp) =>
       LET name == lastOp'.name
           arg == lastOp'.arg
       IN  /\ lastOp'.ret = TRUE
           /\ <<lsHistory, lsSettings, lsApiConfig>>' = <<lsHistory, lsSettings, lsApiConfig>>
           /\ name = "updateApiConfig" =>
                apiConfig' = [apiConfig EXCEPT !.openRouterKey = arg.openRouterKey]
           /\ name = "updateUserSettings" =>
                userSettings' = [userSettings EXCEPT !.autoSave = arg.autoSave]
           /\ name \in {"saveAnalysisRecord", "deleteHistoryItem", "clearHistory"} =>
                history' = GetAnalysisHistory(lsHistory)
    ]_vars

\* C16 witness: a clearHistory was just called while writes are rejected and
\* records are stored; earlier rejected writes left apiConfig and userSettings
\* at values that are not the stored ones
C16_Witness ==
  /\ lsFull
  /\ lastOp.name = "clearHistory"
  /\ Len(GetItem(lsHistory, <<>>)) > 0
  /\ lsApiConfig = Absent /\ apiConfig.openRouterKey = "k"
  /\ lsSettings = Absent /\ userSettings.autoSave = FALSE

(***************************************************************************)
(* Intake of images: processImageFile of the application store, and the    *)
(* analyze page's handlers that build an intake and call setCurrentImage   *)
(***************************************************************************)
\* object URLs that can be live together
MaxRefs == 2

BYTES_PER_MB == 1048576
MAX_FILE_SIZE == 10 * BYTES_PER_MB
SUPPORTED_IMAGE_TYPES ==
  {"image/jpeg", "image/jpg", "image/png", "image/webp", "image/gif"}
DEFAULT_COMPRESSION_MAX_SIZE_MB == 1

\* files given by the user: of a supported type and of one the dropzone lets
\* through but validateImageFile rejects; at the compression threshold, at
\* the size ceiling and one byte above it
FileTypes == {"image/png", "image/bmp"}
FileSizes == {BYTES_PER_MB, MAX_FILE_SIZE, MAX_FILE_SIZE + 1}
Files == [type : FileTypes, size : FileSizes]

\* a validateImageFile whose ceiling itself is rejected
ValidateRejectsCeiling(file) ==
  IF file.type \notin SUPPORTED_IMAGE_TYPES
  THEN [isValid |-> FALSE, error |-> "UnsupportedFormat"]
  ELSE IF file.size >= MAX_FILE_SIZE
  THEN [isValid |-> FALSE, error |-> "FileTooLarge"]
  ELSE [isValid |-> TRUE, error |-> ""]
validateImageFile(file) ==
  IF file.type \notin SUPPORTED_IMAGE_TYPES
  THEN [isValid |-> FALSE, error |-> "UnsupportedFormat"]
  ELSE IF file.size > MAX_FILE_SIZE
  THEN [isValid |-> FALSE, error |-> "FileTooLarge"]
  ELSE [isValid |-> TRUE, error |-> ""]

shouldCompressImage(file, maxSizeMB) == file.size > maxSizeMB * BYTES_PER_MB

\* the file a successful compressImage resolves to
Compressed(file, maxSizeMB) ==
  [file EXCEPT !.size = Min(@, maxSizeMB * BYTES_PER_MB)]

\* the files react-dropzone hands to onDrop (maxSize; every image type of the
\* model is in its accept list)
DropzoneAccepts(file) == file.size <= MAX_FILE_SIZE

\* URL.createObjectURL: a reference that is not live
RefOf(n) == "blob_" \o ToString(n)
CreateObjectURL(refs) ==
  RefOf(CHOOSE n \in 1..MaxRefs :
          /\ RefOf(n) \notin refs
          /\ \A m \in 1..(n - 1) : RefOf(m) \in refs)

\* the ImageUpload built for a file, its processed form and its preview
ImageUpload(file, processedFile, preview) ==
  [file |-> "file_a", preview |-> preview, name |-> "a",
   size |-> processedFile.size, type |-> processedFile.type,
   url |-> NoUrl, isUrl |-> FALSE]

\* an invocation that has returned: its locals are gone
Ended(outcome) == [IdleIntake EXCEPT !.outcome = outcome]

\* processImageFile lines 93-109: preview, intake, set
ProcessBuild(file, processedFile) ==
  LET preview == CreateObjectURL(liveRefs)
  IN  /\ liveRefs' = liveRefs \cup {preview}
      /\ currentImage' = ImageUpload(file, processedFile, preview)
      /\ analysisResult' = Null
      /\ isUploading' = FALSE
      /\ proc' = Ended("succeeded")

\* a catch block that also drops the intake
ProcessCatchClears(message) ==
  /\ error' = Err(message)
  /\ isUploading' = FALSE
  /\ proc' = Ended("failed")
  /\ currentImage' = Null
  /\ analysisResult' = Null
  /\ UNCHANGED liveRefs
\* the catch block of processImageFile (useAppStore.ts:111-119)
ProcessCatch(message) ==
  /\ error' = Err(message)
  /\ isUploading' = FALSE
  /\ proc' = Ended("failed")
  /\ UNCHANGED <<currentImage, analysisResult, liveRefs>>

\* processImageFile from its call to its suspension in compressImage, or to
\* its return when the file needs no compression
processImageFile(file) ==
  /\ proc.pc = "idle"
  /\ Cardinality(liveRefs) < MaxRefs
  /\ IF shouldCompressImage(file, 1)
     THEN /\ error' = Null
          /\ isUploading' = TRUE
          /\ proc' = [pc |-> "compressing", file |-> file, outcome |-> "running"]
          /\ UNCHANGED <<currentImage, analysisResult, liveRefs>>
     ELSE /\ error' = Null
          /\ ProcessBuild(file, file)
  /\ UNCHANGED <<storeVars, isAnalyzing, history, apiConfig, userSettings,
                 clientVars, inv, now, drop, tests>>

\* compressImage inside processImageFile settles
processCompressDone(ok) ==
  /\ proc.pc = "compressing"
  /\ ok => Cardinality(liveRefs) < MaxRefs
  /\ IF ok
     THEN /\ ProcessBuild(proc.file, Compressed(proc.file, 1))
          /\ error' = error
     ELSE ProcessCatch("CompressionFailed")
  /\ UNCHANGED <<storeVars, isAnalyzing, history, apiConfig, userSettings,
                 clientVars, inv, now, drop, tests>>

\* onDrop of the analyze page from its call to its suspension in compressImage
\* (Analyze.tsx:32-46); a file validateImageFile rejects is only logged
onDrop(file) ==
  /\ drop.pc = "idle"
  /\ error' = Null
  /\ drop' = IF validateImageFile(file).isValid
             THEN [pc |-> "compressing", file |-> file, outcome |-> "running"]
             ELSE Ended("failed")
  /\ UNCHANGED <<storeVars, currentImage, isAnalyzing, isUploading, analysisResult,
                 history, apiConfig, userSettings, clientVars, inv, now,
                 liveRefs, proc, tests>>

\* compressImage inside onDrop settles (Analyze.tsx:46-63)
onDropCompressDone(ok) ==
  /\ drop.pc = "compressing"
  /\ ok => Cardinality(liveRefs) < MaxRefs
  /\ IF ok
     THEN LET preview == CreateObjectURL(liveRefs)
              compressedFile == Compressed(drop.file, DEFAULT_COMPRESSION_MAX_SIZE_MB)
          IN  /\ liveRefs' = liveRefs \cup {preview}
              /\ currentImage' = ImageUpload(drop.file, compressedFile, preview)
              /\ analysisResult' = Null
              /\ drop' = Ended("succeeded")
     ELSE /\ drop' = Ended("failed")
          /\ UNCHANGED <<currentImage, analysisResult, liveRefs>>
  /\ UNCHANGED <<storeVars, isAnalyzing, isUploading, error, history, apiConfig,
                 userSettings, clientVars, inv, now, proc, tests>>

\* handleUrlSubmit of the analyze page for a non-blank input: the intake of a
\* URL that parses, nothing but the cleared error for one that does not
handleUrlSubmit(parses) ==
  /\ error' = Null
  /\ IF parses
     THEN /\ currentImage' = UrlIntake
          /\ analysisResult' = Null
     ELSE UNCHANGED <<currentImage, analysisResult>>
  /\ UNCHANGED <<storeVars, isAnalyzing, isUploading, history, apiConfig,
                 userSettings, clientVars, inv, now, intakeVars, tests>>

NextIntake ==
  \/ \E file \in Files : processImageFile(file)
  \/ \E ok \in BOOLEAN : processCompressDone(ok)
  \/ \E file \in {f \in Files : DropzoneAccepts(f)} : onDrop(file)
  \/ \E ok \in BOOLEAN : onDropCompressDone(ok)
  \/ \E parses \in BOOLEAN : handleUrlSubmit(parses)
  \/ clearCurrentImage
  \/ updateApiConfig("openRouterKey", "k")
  \/ handleAnalyze
  \/ encodeAnalysisDone(1, TRUE)
  \/ \E c \in Contents :
        analysisDone(1, [kind |-> "ok", content |-> c, status |-> 200])

SpecIntake == Init /\ [][NextIntake]_vars

\* the previews created and not released, and the one the current intake holds
CurrentPreview == IF currentImage = Null THEN {} ELSE {currentImage.preview}

\* C17 (under SpecIntake): every object URL that was created and not revoked
\* is the preview of the current intake.
C17_LiveRefsWithinCurrentIntake == liveRefs \subseteq CurrentPreview

\* a step on which processImageFile returns for a file it was given
ProcessReturns(file) ==
  \/ processImageFile(file) /\ proc'.pc = "idle"
  \/ proc.pc = "compressing" /\ proc.file = file /\ proc'.pc = "idle"

\* C18 (under SpecIntake): a processImageFile call on a file validateImageFile
\* rejects returns with an error set, and neither of its steps creates or
\* replaces the current intake.
C18_InvalidFileRejected ==
  [][\A file \in Files :
       ~validateImageFile(file).isValid =>
         /\ ProcessReturns(file) => error' # Null
         /\ (processImageFile(file) \/ (proc.file = file /\ proc' # proc)) =>
              currentImage' = currentImage
    ]_vars

\* C19 (under SpecIntake): a processImageFile whose compression fails returns
\* with an error set and isUploading false, and neither its first step nor its
\* last changes currentImage or analysisResult.
C19_FailedProcessingLeavesIntake ==
  [][/\ (proc'.pc = "compressing" /\ proc.pc = "idle") =>
          <<currentImage, analysisResult>>' = <<currentImage, analysisResult>>
     /\ (proc.pc = "compressing" /\ proc'.outcome = "failed") =>
          /\ error' # Null
          /\ isUploading' = FALSE
          /\ <<currentImage, analysisResult>>' = <<currentImage, analysisResult>>
    ]_vars

\* C19 witness: a processImageFile has failed over an intake with a published
\* result; the error is set, nothing is uploading and both are still there
C19_Witness ==
  /\ proc.outcome = "failed"
  /\ error = Err("CompressionFailed")
  /\ ~isUploading
  /\ currentImage # Null
  /\ analysisResult # Null

(***************************************************************************)
(* testApiKey of the two clients, called directly and from the settings    *)
(* page                                                                    *)
(***************************************************************************)
\* the keys tried
Candidates == {"a", "b"}

ClientKey(client) == IF client = "openRouter" THEN orKey ELSE ibKey

\* setApiKey on a client
SetApiKey(client, key) ==
  /\ orKey' = IF client = "openRouter" THEN key ELSE orKey
  /\ ibKey' = IF client = "imgbb" THEN key ELSE ibKey

\* the invocations in flight on a client
InFlight(ts, client) ==
  {t \in 1..MaxTests : ts.slots[t].pc = "testing" /\ ts.slots[t].client = client}

\* the slot of a call that starts now, given the key the client holds when
\* testApiKey reads it; the key the client held before the first of the calls
\* in flight began is kept on record
Begun(t, client, original) ==
  [slots |-> [tests.slots EXCEPT ![t] =
                [pc |-> "testing", client |-> client, originalKey |-> original]],
   base |-> IF InFlight(tests, client) = {}
            THEN [tests.base EXCEPT ![client] = ClientKey(client)]
            ELSE tests.base]

\* testApiKey(candidate) from its call to its suspension in axios.post
\* (openRouterApi.ts:193-195, imgbbApi.ts:104-106)
testApiKey(t, client, candidate) ==
  /\ tests.slots[t].pc = "idle"
  /\ tests' = Begun(t, client, ClientKey(client))
  /\ SetApiKey(client, candidate)
  /\ UNCHANGED <<storeVars, coordVars, inv, now, intakeVars>>

\* the request of testApiKey settles: true or false is returned and the
\* finally block puts originalKey back
testDone(t, ok) ==
  /\ tests.slots[t].pc = "testing"
  /\ SetApiKey(tests.slots[t].client, tests.slots[t].originalKey)
  /\ tests' = [tests EXCEPT !.slots[t] = IdleTest]
  /\ UNCHANGED <<storeVars, coordVars, inv, now, intakeVars>>

\* testOpenRouterKey / testImgbbKey of the settings page for a non-blank key:
\* setApiKey(key), then testApiKey(key) up to its suspension
settingsTestKey(t, client, key) ==
  /\ tests.slots[t].pc = "idle"
  /\ tests' = Begun(t, client, key)
  /\ SetApiKey(client, key)
  /\ UNCHANGED <<storeVars, coordVars, inv, now, intakeVars>>

NextKeys ==
  \/ \E field \in {"openRouterKey", "imgbbKey"} :
        \E key \in KeyInputs(field) : updateApiConfig(field, key)
  \/ \E t \in 1..MaxTests : \E client \in Clients : \E candidate \in Candidates :
        testApiKey(t, client, candidate)
  \/ \E t \in 1..MaxTests : \E ok \in BOOLEAN : testDone(t, ok)
  \/ \E t \in 1..MaxTests : \E client \in Clients : \E key \in Candidates :
        settingsTestKey(t, client, key)

SpecKeys == Init /\ [][NextKeys]_vars

\* C20 (under SpecKeys): when the last testApiKey call in flight on a client
\* completes, the client holds the key it held before the first of them began.
C20_TestKeyRestoresConfiguredKey ==
  [][\A client \in Clients :
       (InFlight(tests, client) # {} /\ InFlight(tests', client) = {}) =>
          ClientKey(client)' = tests.base[client]
    ]_vars

(***************************************************************************)
(* The two remote clients called directly: what analyzeImage and           *)
(* uploadImage return or throw for each outcome of their HTTP request      *)
(***************************************************************************)
\* HTTP statuses of an error response
HttpStatuses == {400, 401, 403, 413, 429, 500, 503}

\* outcomes of the analysis request: those of the application model and an
\* error response of every status
AnalysisOutcomes ==
  AnalysisResponses
  \cup {[kind |-> "http", content |-> "", status |-> st] : st \in HttpStatuses}

\* outcomes of the hosting request
UploadOutcomes ==
  UploadResponses
  \cup {[kind |-> "http", success |-> FALSE, status |-> st] : st \in HttpStatuses}

\* the message ImgBBApiService.uploadImage throws for an HTTP outcome, "" when
\* it returns the hosted URL: the error thrown inside the try block for
\* success = false is not an axios error and is replaced in the catch block
UploadError(resp) ==
  CASE resp.kind = "ok" /\ resp.success -> ""
    [] resp.kind = "ok" -> "NetworkFailure"
    [] resp.kind = "http" /\ resp.status = 400 -> "ImageInvalid"
    [] resp.kind = "http" /\ resp.status = 401 -> "ImgbbKeyInvalid"
    [] resp.kind = "http" /\ resp.status = 403 -> "AccessDenied"
    [] resp.kind = "http" /\ resp.status = 413 -> "ImageTooLarge"
    [] resp.kind = "http" /\ resp.status = 429 -> "RateLimited"
    [] resp.kind = "http" /\ resp.status = 500 -> "ServerError"
    [] OTHER -> "UploadFailed"

\* what a client call gives its caller
Threw(message, requests) ==
  [threw |-> TRUE, message |-> message, value |-> "", requests |-> requests]
Resolved(value) ==
  [threw |-> FALSE, message |-> "", value |-> value, requests |-> 1]

\* openRouterApi.analyzeImage for the key the client holds, a source that is
\* a URL string or a File, the fate of fileToBase64 and the HTTP outcome
OpenRouter_analyzeImage(key, source, encodes, resp) ==
  IF ~ValidateApiKey(key) THEN Threw("SetOpenRouterKey", 0)
  ELSE IF source = "file" /\ ~encodes THEN Threw("NetworkFailure", 0)
  ELSE IF AnalysisError(resp) # "" THEN Threw(AnalysisError(resp), 1)
  ELSE Resolved(Trim(resp.content))

\* imgbbApi.uploadImage for the key the client holds and the HTTP outcome
Imgbb_uploadImage(key, resp) ==
  IF ~ValidateApiKey(key) THEN Threw("SetImgbbKey", 0)
  ELSE IF UploadError(resp) # "" THEN Threw(UploadError(resp), 1)
  ELSE Resolved(HostedUrl)

\* keys a client can be given
ClientKeys == {"", " ", "k"}

ClientSetApiKey(client, key) ==
  /\ SetApiKey(client, key)
  /\ lastOp' = Called("setApiKey", [client |-> client, key |-> key], TRUE)
  /\ UNCHANGED <<lsHistory, lsSettings, lsApiConfig, lsFull, coordVars, inv, now,
                 intakeVars, tests>>

ClientAnalyzeImage(source, encodes, resp) ==
  /\ lastOp' = Called("analyzeImage",
                      [source |-> source, encodes |-> encodes, resp |-> resp],
                      OpenRouter_analyzeImage(orKey, source, encodes, resp))
  /\ UNCHANGED <<lsHistory, lsSettings, lsApiConfig, lsFull, coordVars, clientVars,
                 inv, now, intakeVars, tests>>

ClientUploadImage(resp) ==
  /\ lastOp' = Called("uploadImage", [resp |-> resp],
                      Imgbb_uploadImage(ibKey, resp))
  /\ UNCHANGED <<lsHistory, lsSettings, lsApiConfig, lsFull, coordVars, clientVars,
                 inv, now, intakeVars, tests>>

NextClients ==
  \/ \E client \in Clients : \E key \in ClientKeys : ClientSetApiKey(client, key)
  \/ \E source \in {"url", "file"} : \E encodes \in BOOLEAN :
        \E resp \in AnalysisOutcomes : ClientAnalyzeImage(source, encodes, resp)
  \/ \E resp \in UploadOutcomes : ClientUploadImage(resp)

SpecClients == Init /\ [][NextClients]_vars

\* a client call on record that issued its request
RequestIssued ==
  /\ lastOp.name \in {"analyzeImage", "uploadImage"}
  /\ lastOp.ret.requests = 1

\* C21 (under SpecClients): a request of either client that ends without any
\* HTTP response is reported as the network-connectivity error.
C21_NoResponseIsNetworkError ==
  (RequestIssued /\ lastOp.arg.resp.kind = "noResponse") =>
     (lastOp.ret.threw /\ lastOp.ret.message = "NetworkFailure")

\* C22 (under SpecClients): a failure carried by a successful HTTP response is
\* not reported as the network-connectivity error: analyzeImage with no
\* choices or empty content throws the malformed-response error, uploadImage
\* with success = false throws the generic upload failure.
C22_ApplicationFailureHasOwnError ==
  /\ (RequestIssued /\ lastOp.name = "analyzeImage"
        /\ (lastOp.arg.resp.kind = "noChoices"
              \/ (lastOp.arg.resp.kind = "ok" /\ lastOp.arg.resp.content = ""))) =>
       (lastOp.ret.threw /\ lastOp.ret.message = "MalformedResponse")
  /\ (RequestIssued /\ lastOp.name = "uploadImage"
        /\ lastOp.arg.resp.kind = "ok" /\ ~lastOp.arg.resp.success) =>
       (lastOp.ret.threw /\ lastOp.ret.message = "UploadFailed")

(***************************************************************************)
(* validateImageFile called directly                                       *)
(***************************************************************************)
\* how far from a threshold the sizes tried lie
MaxDelta == 3

\* MIME types tried: the supported ones and some others
ValidatedTypes ==
  SUPPORTED_IMAGE_TYPES \cup {"image/bmp", "image/tiff", "text/plain", ""}
\* sizes tried: empty, around the compression threshold, around the ceiling
ValidatedSizes ==
  {0}
  \cup ((BYTES_PER_MB - MaxDelta)..(BYTES_PER_MB + MaxDelta))
  \cup ((MAX_FILE_SIZE - MaxDelta)..(MAX_FILE_SIZE + MaxDelta))
ValidatedFiles == [type : ValidatedTypes, size : ValidatedSizes]

ValidateFile(file) ==
  /\ lastOp' = Called("validateImageFile", file, validateImageFile(file))
  /\ UNCHANGED <<lsHistory, lsSettings, lsApiConfig, lsFull, coordVars, clientVars,
                 inv, now, intakeVars, tests>>

NextValidate == \E file \in ValidatedFiles : ValidateFile(file)

SpecValidate == Init /\ [][NextValidate]_vars

\* the allow-list as the claim gives it
ClaimedAllowList == {"image/jpeg", "image/png", "image/webp", "image/gif"}

NextOverlap ==
  \/ \E image \in Intakes : setCurrentImage(image)
  \/ clearCurrentImage
  \/ \E field \in {"openRouterKey", "imgbbKey"} : updateApiConfig(field, "k")
  \/ \E i \in Inv : analyzeImage(i)
  \/ \E i \in Inv : Resume(i)

SpecOverlap == Init /\ [][NextOverlap]_vars

\* analyzeImage started by the analyze button, with every remote call and
\* every file read settling: the suspended invocation is resumed by the event
\* loop once its promise settles
NextLive ==
  \/ \E image \in Intakes : setCurrentImage(image)
  \/ clearCurrentImage
  \/ \E field \in {"openRouterKey", "imgbbKey"} : updateApiConfig(field, "k")
  \/ Tick
  \/ handleAnalyze
  \/ Resume(1)

SpecLive == Init /\ [][NextLive]_vars /\ WF_vars(Resume(1))

\* the invocations that passed the preconditions and have not returned
Flying == {i \in Inv : inv[i].pc # "idle"}

\* C24 (under SpecOverlap): isAnalyzing is true whenever an invocation that
\* passed its preconditions has not completed, and at most one such
\* invocation is in flight.
C24_BusyFlagTracksSingleInvocation ==
  /\ Flying # {} => isAnalyzing
  /\ Cardinality(Flying) <= 1

(***************************************************************************)
(* The history page over the application store                             *)
(***************************************************************************)
\* initializeApp: loadHistory, then the clients get the configured keys
initializeApp ==
  /\ history' = GetAnalysisHistory(lsHistory)
  /\ orKey' = IF Truthy(apiConfig.openRouterKey) THEN apiConfig.openRouterKey
              ELSE orKey
  /\ ibKey' = IF Truthy(apiConfig.imgbbKey) THEN apiConfig.imgbbKey ELSE ibKey
  /\ UNCHANGED <<storeVars, currentImage, isAnalyzing, isUploading, analysisResult,
                 error, apiConfig, userSettings, inv, now, intakeVars, tests>>

\* the comparator of a sort option is negative for (a, b); localeCompare
\* orders the image names of the model as "a" < "u"
ComesBefore(sortBy, a, b) ==
  CASE sortBy = "newest" -> a.timestamp.t > b.timestamp.t
    [] sortBy = "oldest" -> a.timestamp.t < b.timestamp.t
    [] sortBy = "name" -> a.imageName = "a" /\ b.imageName # "a"

\* Array.prototype.sort is stable: an element goes before the first one it
\* must precede
Insert(sorted, x, sortBy) ==
  LET before == {j \in 1..Len(sorted) : ComesBefore(sortBy, x, sorted[j])}
      at == IF before = {} THEN Len(sorted) + 1
            ELSE CHOOSE j \in before : \A k \in before : j <= k
  IN  SubSeq(sorted, 1, at - 1) \o <<x>> \o SubSeq(sorted, at, Len(sorted))

RECURSIVE SortPrefix(_, _, _)
SortPrefix(arr, n, sortBy) ==
  IF n = 0 THEN <<>> ELSE Insert(SortPrefix(arr, n - 1, sortBy), arr[n], sortBy)

\* the history page renders with the options chosen: the memo
\* filteredAndSortedHistory is computed (part_003:27-70).  filter returns a
\* new array, so the array sorted in place is the store's own when no search
\* term and no time filter is chosen
filteredAndSortedHistory(searchTerm, sortBy, filterBy) ==
  /\ history' = IF Truthy(searchTerm) \/ filterBy # "all" THEN history
                ELSE SortPrefix(history, Len(history), sortBy)
  /\ lastOp' = Called("filteredAndSortedHistory",
                      [searchTerm |-> searchTerm, sortBy |-> sortBy,
                       filterBy |-> filterBy], TRUE)
  /\ UNCHANGED <<lsHistory, lsSettings, lsApiConfig, lsFull, currentImage,
                 isAnalyzing, isUploading, analysisResult, error, apiConfig,
                 userSettings, clientVars, inv, now, intakeVars, tests>>

NextHistory ==
  \/ initializeApp
  \/ \E record \in RecordInputs :
        CallSaveAnalysisRecord([record EXCEPT !.timestamp = DateOf(now)])
  \/ \E id \in Ids : CallDeleteHistoryItem(id)
  \/ CallClearHistory
  \/ Tick
  \/ setCurrentImage(FileIntake("a"))
  \/ updateApiConfig("openRouterKey", "k")
  \/ handleAnalyze
  \/ encodeAnalysisDone(1, TRUE)
  \/ \E c \in Contents :
        analysisDone(1, [kind |-> "ok", content |-> c, status |-> 200])
  \/ \E searchTerm \in {"", "p1"} : \E sortBy \in {"newest", "oldest", "name"} :
        \E filterBy \in {"all", "today", "week", "month"} :
          filteredAndSortedHistory(searchTerm, sortBy, filterBy)

SpecHistory == Init /\ [][NextHistory]_vars

\* C30 (under SpecHistory): after every step the in-memory history is what
\* getAnalysisHistory returns, and a render of the history page with any
\* options leaves the in-memory history as it was.
C30_HistoryMirrorsStore ==
  [][/\ history' = GetAnalysisHistory(lsHistory')
     /\ lastOp'.name = "filteredAndSortedHistory" => history' = history
    ]_vars

(***************************************************************************)
(* Properties of the StorageManager (checked under SpecStore)              *)
(***************************************************************************)
StoredRecords == GetItem(lsHistory, <<>>)
StoredMax == GetUserSettings(lsSettings).maxHistoryItems

\* a record read back after a write is the record that was there before; a
\* timestamp that was not a valid date has no faithful serialised form
SameRecord(after, before) ==
  IF before.timestamp = InvalidDate
  THEN [after EXCEPT !.timestamp = InvalidDate] = before
  ELSE after = before

\* C7: saveRecord(r) with a positive maximum M puts r at the head of the
\* stored collection, keeps the previous records in their previous order, and
\* keeps Min(M, previous length + 1) records: when the length would exceed M
\* the tail is cut so that exactly M remain.
C7_SaveRecordPrependsAndTruncates ==
  [][(lastOp'.name = "saveAnalysisRecord" /\ StorageSaveRecord(lastOp'.arg)
        /\ StoredMax >= 1) =>
         LET r == lastOp'.arg
             before == GetAnalysisHistory(lsHistory)
             after == GetAnalysisHistory(lsHistory')
         IN  /\ Len(after) = Min(StoredMax, Len(before) + 1)
             /\ after[1] = r
             /\ \A k \in 2..Len(after) : SameRecord(after[k], before[k - 1])
    ]_vars

\* a save that left the collection at its maximum M > 1, newest first
C7_Witness ==
  /\ lastOp.name = "saveAnalysisRecord"
  /\ StoredMax = 2
  /\ Len(StoredRecords) = 2
  /\ StoredRecords[1] = [lastOp.arg EXCEPT !.timestamp = StringifyTimestamp(@)]
  /\ StoredRecords[1].id # StoredRecords[2].id

\* C8: with a maximum that is zero or negative, saveRecord still retains the
\* newly saved record at the head of the stored collection.
C8_InvalidMaxRetainsNewRecord ==
  [][(lastOp'.name = "saveAnalysisRecord" /\ StorageSaveRecord(lastOp'.arg)
        /\ StoredMax < 1) =>
         LET after == GetAnalysisHistory(lsHistory')
         IN  Len(after) >= 1 /\ after[1] = lastOp'.arg
    ]_vars

\* C9: no two records of the stored collection have the same id.
C9_UniqueIds ==
  \A i, j \in 1..Len(StoredRecords) :
    StoredRecords[i].id = StoredRecords[j].id => i = j

\* C11: importRecords of a text that does not parse to a top-level array
\* (unparsable, or an object, a number, a string or null) returns false and
\* leaves the stored collection as it was.
C11_ImportRejectsNonArray ==
  [][(lastOp'.name = "importAnalysisHistory" /\ StorageImport(lastOp'.arg)
        /\ lastOp'.arg.tag \in NotArrayTags) =>
         (lastOp'.ret = FALSE /\ lsHistory' = lsHistory)
    ]_vars

\* an import of a parsed object was rejected while records were stored
C11_Witness ==
  /\ lastOp.name = "importAnalysisHistory"
  /\ lastOp.arg.tag = "object"
  /\ lastOp.ret = FALSE
  /\ Len(StoredRecords) >= 1

\* the entries of s whose id did not occur earlier in s
RECURSIVE KeepFirst(_, _)
KeepFirst(s, seen) ==
  IF s = <<>> THEN <<>>
  ELSE IF Head(s).id \in seen THEN KeepFirst(Tail(s), seen)
  ELSE <<Head(s)>> \o KeepFirst(Tail(s), seen \cup {Head(s).id})

\* C10: a successful importRecords stores the imported entries followed by the
\* existing ones, each id kept once, at its first occurrence (so the imported
\* entry wins over an existing one with the same id), and stores all of them
\* even when they are more than the configured maximum.
C10_ImportMergesImportedFirst ==
  [][(lastOp'.name = "importAnalysisHistory" /\ lastOp'.arg.tag = "json") =>
         LET imported == lastOp'.arg.val
             existing == GetAnalysisHistory(lsHistory)
         IN  /\ lastOp'.ret = TRUE
             /\ GetItem(lsHistory', <<>>) =
                  Stringify(KeepFirst(imported \o existing, {}))
    ]_vars

\* an import that succeeded, replaced an existing record by the imported one
\* with the same id, and left more records than the maximum allows
C10_Witness ==
  /\ lastOp.name = "importAnalysisHistory"
  /\ lastOp.ret
  /\ StoredMax >= 1
  /\ Len(StoredRecords) > StoredMax
  /\ Len(StoredRecords) > Len(lastOp.arg.val)
  /\ StoredRecords[1].timestamp = JsonJunk

\* no two entries of s have the same id
UniqueIds(s) == \A i, j \in 1..Len(s) : s[i].id = s[j].id => i = j

\* the history key after exportAnalysisHistory, clearAnalysisHistory and
\* importAnalysisHistory of the exported text, started from historyItem
RoundTrip(historyItem) ==
  LET text == Storage_exportAnalysisHistory(historyItem)
      cleared == SetItem(historyItem, <<>>)
  IN  IF Storage_importOk(text)
      THEN SetItem(cleared, Stringify(Storage_importMerge(cleared, text)))
      ELSE cleared

\* C12: for every stored collection with unique ids, clearing the store and
\* importing the text exported from it succeeds and makes listRecords() the
\* same sequence of records (ids, field values, order) as before.
C12_ExportImportRoundTrip ==
  UniqueIds(StoredRecords) =>
    /\ Storage_importOk(Storage_exportAnalysisHistory(lsHistory))
    /\ GetAnalysisHistory(RoundTrip(lsHistory)) = GetAnalysisHistory(lsHistory)

\* C13: importing a text a second time, right after a successful import of
\* the same text, leaves listRecords() as it was after the first import: the
\* same records in the same order, so the same count, and unique ids.
C13_SecondImportChangesNothing ==
  [][(lastOp'.name = "importAnalysisHistory" /\ lastOp'.again /\ lastOp.ret
        /\ StorageImport(lastOp'.arg)) =>
         /\ lastOp'.ret = TRUE
         /\ GetAnalysisHistory(lsHistory') = GetAnalysisHistory(lsHistory)
         /\ Len(GetItem(lsHistory', <<>>)) = Len(StoredRecords)
         /\ UniqueIds(GetItem(lsHistory', <<>>))
    ]_vars

\* a text was imported twice in a row over a store that held a record the
\* text does not have, and the second import rewrote the stored form
C13_Witness ==
  /\ lastOp.name = "importAnalysisHistory"
  /\ lastOp.again
  /\ lastOp.ret
  /\ Len(lastOp.arg.val) >= 1
  /\ Len(StoredRecords) > Len(lastOp.arg.val)
  /\ \E k \in 1..Len(StoredRecords) : StoredRecords[k].timestamp = IsoOf(0)

\* C14: deleteRecord(id) leaves in the stored collection exactly the records
\* whose id is not id, as they were stored and in their order; in particular
\* the stored collection is the same when no record has that id (a missing
\* key counts as the empty collection).
C14_DeleteRemovesOnlyThatRecord ==
  [][(lastOp'.name = "deleteAnalysisRecord"
        /\ StorageDeleteRecord(lastOp'.arg.id)) =>
         LET before == StoredRecords
             id == lastOp'.arg.id
         IN  GetItem(lsHistory', <<>>) =
               FilterIdx(before, {i \in 1..Len(before) : before[i].id # id}, 1)
    ]_vars

\* C15 (under SpecRead): a read of a key whose content is missing, does not
\* parse, or parses to a value of another shape returns the documented
\* default and does not throw.
C15_ReadsDefaultOnBadContent ==
  [][\A name \in ReadNames :
       (lastOp'.name = name /\ StorageRead(name)
          /\ ReadItem(name).tag \in {"absent", "garbage", "shape"}) =>
          (~lastOp'.ret.threw /\ lastOp'.ret.val = ReadDefault(name))
    ]_vars

(***************************************************************************)
(* Properties of analyzeImage (checked under Spec)                         *)
(***************************************************************************)
\* the outcomes of the two HTTP calls, as the remote service produced them
UploadFailed(resp) == ~(resp.kind = "ok" /\ resp.success)
AnalysisFailed(resp) == resp.kind # "ok" \/ resp.content = ""
\* a step in which invocation i returns: a suspended invocation resumes and
\* ends, or analyzeImage is called and ends before suspending
ReturnStep(i) == inv'[i].pc = "idle" /\ (inv[i].pc # "idle" \/ analyzeImage(i))
\* a step of invocation i: only its own steps change its slot
AnalyzeStep(i) == inv'[i] # inv[i] \/ analyzeImage(i)

\* C1: analyze() called with no intake, or with an empty primary key, sets one
\* of the two precondition errors and returns at once: it issues no upload and
\* no analysis request and changes neither the busy flag nor the Store.
C1_PreconditionsRejectWithoutRequests ==
  [][(analyzeImage(1) /\ (currentImage = Null \/ apiConfig.openRouterKey = "")) =>
       /\ error' = Err(IF currentImage = Null THEN "SelectImage"
                       ELSE "SetOpenRouterKey")
       /\ inv'[1].pc = "idle"
       /\ inv'[1].upReq = 0
       /\ inv'[1].anReq = 0
       /\ inv'[1].source = "none"
       /\ UNCHANGED <<isAnalyzing, storeVars>>
    ]_vars

\* analyze() was rejected for the missing key although an intake and a hosting
\* key were present
C1_Witness ==
  /\ inv[1].outcome = "rejected"
  /\ error = Err("SetOpenRouterKey")
  /\ currentImage # Null
  /\ apiConfig.openRouterKey = ""
  /\ apiConfig.imgbbKey # ""

\* C2: when the hosting upload fails (the request fails, or the file cannot be
\* encoded for it), analyze() goes on: it calls the analysis client with the
\* intake's raw file, and when that analysis request succeeds the invocation
\* publishes a record and returns with no error and not busy.
C2_UploadFailureFallsBackToRawFile ==
  [][/\ \A resp \in UploadResponses :
          (uploadDone(1, resp) /\ UploadFailed(resp)) =>
             /\ inv'[1].source = inv[1].image.file
             /\ inv'[1].source # NoFile
             /\ inv'[1].upReq = 1
             /\ ValidateApiKey(orKey) =>
                  (inv'[1].pc = "encodeAnalysis" /\ isAnalyzing' /\ error' = Null)
     /\ \A ok \in BOOLEAN :
          (encodeUploadDone(1, ok) /\ ~(ok /\ ValidateApiKey(ibKey))) =>
             /\ inv'[1].source = inv[1].image.file
             /\ inv'[1].upReq = 0
             /\ ValidateApiKey(orKey) =>
                  (inv'[1].pc = "encodeAnalysis" /\ isAnalyzing' /\ error' = Null)
     /\ \A resp \in AnalysisResponses :
          (analysisDone(1, resp)
             /\ inv[1].source # HostedUrl
             /\ ~AnalysisFailed(resp)) =>
             /\ inv'[1].outcome = "succeeded"
             /\ analysisResult' # Null
             /\ analysisResult'.prompt = Trim(resp.content)
             /\ analysisResult'.imageName = inv[1].image.name
             /\ error' = Null
             /\ ~isAnalyzing'
    ]_vars

\* an invocation whose upload request failed and whose analysis of the raw
\* file succeeded
C2_Witness ==
  /\ inv[1].outcome = "succeeded"
  /\ inv[1].upReq = 1
  /\ inv[1].anReq = 1
  /\ inv[1].source = "file_a"
  /\ analysisResult # Null
  /\ error = Null
  /\ ~isAnalyzing

\* C3: an invocation issues at most one hosting request and at most one
\* analysis request, and has issued no analysis request while its upload is
\* still being prepared or is in flight.
C3_OneUploadThenOneAnalysis ==
  \A i \in Inv :
    /\ inv[i].upReq <= 1
    /\ inv[i].anReq <= 1
    /\ inv[i].pc \in {"encodeUpload", "uploading"} => inv[i].anReq = 0

\* an invocation that issued both requests, the upload first
C3_Witness ==
  /\ inv[1].upReq = 1
  /\ inv[1].anReq = 1
  /\ inv[1].source = HostedUrl
  /\ inv[1].pc = "analyzing"

\* C4: when an invocation that passed its preconditions returns, it is not
\* busy; if it failed (in particular if the analysis request failed) an error
\* is set; if it succeeded no error is set and a result is published.
C4_FlagsAtReturn ==
  [][/\ (inv'[1].outcome = "failed" /\ ReturnStep(1)) =>
          (~isAnalyzing' /\ error' # Null)
     /\ (inv'[1].outcome = "succeeded" /\ ReturnStep(1)) =>
          (~isAnalyzing' /\ error' = Null /\ analysisResult' # Null)
     /\ (inv'[1].pc # "idle" /\ inv'[1] # inv[1]) => isAnalyzing'
     /\ \A resp \in AnalysisResponses :
          analysisDone(1, resp) =>
             inv'[1].outcome = IF AnalysisFailed(resp) THEN "failed" ELSE "succeeded"
    ]_vars

\* an invocation that returned failed after its analysis request
C4_Witness ==
  /\ inv[1].outcome = "failed"
  /\ inv[1].anReq = 1
  /\ inv[1].pc = "idle"
  /\ ~isAnalyzing
  /\ error = Err("ApiKeyInvalid")

\* C5: no step of analyze() writes the credentials or the preferences, a step
\* in which the analysis request fails writes nothing to the Store, and the
\* record collection is written only by the step in which the analysis request
\* succeeds.
C5_FailedAnalysisLeavesStoreUntouched ==
  [][/\ \A resp \in AnalysisResponses :
          (analysisDone(1, resp)
             /\ AnalysisFailed(resp)) =>
             UNCHANGED <<lsHistory, lsSettings, lsApiConfig>>
     /\ (lsHistory' # lsHistory /\ AnalyzeStep(1)) =>
          (inv[1].pc = "analyzing" /\ inv'[1].outcome = "succeeded")
     /\ (<<lsSettings, lsApiConfig>>' # <<lsSettings, lsApiConfig>>) =>
          ~AnalyzeStep(1)
    ]_vars

\* an invocation whose analysis request failed while records were stored
C5_Witness ==
  /\ inv[1].outcome = "failed"
  /\ inv[1].anReq = 1
  /\ error # Err("NetworkFailure")
  /\ Len(StoredRecords) >= 1

\* C6: after a successful analyze(), with auto-save enabled the created record
\* (its prompt the text the analysis client returned) is the first entry of
\* listRecords(); with auto-save disabled the stored collection is unchanged.
C6_AutoSavedRecordIsNewest ==
  [][\A resp \in AnalysisResponses :
       (analysisDone(1, resp)
          /\ ~AnalysisFailed(resp)) =>
          IF inv[1].autoSave
          THEN LET list == GetAnalysisHistory(lsHistory')
               IN  /\ Len(list) >= 1
                   /\ list[1] = analysisResult'
                   /\ list[1].prompt = Trim(resp.content)
          ELSE lsHistory' = lsHistory
    ]_vars

\* C25 (under Spec): when the invocation's hosting upload succeeded (the
\* analysis client was given the hosted URL) and the analysis succeeds, the
\* record published carries the URL the upload returned.
C25_RecordCarriesHostedUrl ==
  [][(inv[1].pc = "analyzing" /\ inv[1].source = HostedUrl
        /\ inv'[1].outcome = "succeeded" /\ inv'[1].pc = "idle") =>
        analysisResult'.imageUrl = HostedUrl
    ]_vars

\* C26 (under SpecLive): an invocation that has passed its preconditions and
\* is suspended eventually returns, succeeded or failed, with isAnalyzing
\* false.
C26_InvocationEventuallyReturns ==
  (inv[1].pc # "idle") ~>
     (inv[1].pc = "idle" /\ inv[1].outcome \in {"succeeded", "failed"}
        /\ ~isAnalyzing)

\* C26 witness: an invocation that uploaded and then issued the analysis
\* request has returned failed, and nothing is analyzing
C26_Witness ==
  /\ inv[1].pc = "idle" /\ inv[1].outcome = "failed"
  /\ inv[1].upReq = 1 /\ inv[1].anReq = 1
  /\ ~isAnalyzing

\* C27 (under Spec): when the intake was cleared or replaced while the hosting
\* upload was in flight, the step on which the upload completes leaves
\* currentImage as it is.
C27_UploadCompletionKeepsNewIntake ==
  [][(inv[1].pc = "uploading" /\ inv'[1].pc # "uploading"
        /\ currentImage # inv[1].image) =>
        currentImage' = currentImage
    ]_vars

\* C28 (under Spec): whenever an intake and a result are both present, the
\* result was produced from that intake: it carries the intake's name.
C28_ResultBelongsToCurrentIntake ==
  (analysisResult # Null /\ currentImage # Null) =>
     analysisResult.imageName = currentImage.name

\* C29 (under Spec): the source an invocation passed to the analysis client is
\* never a missing file, and while the invocation of a URL intake is in flight
\* the source is that intake's URL.
C29_AnalysisSourcePresent ==
  inv[1].source # "none" =>
    /\ inv[1].source # NoFile
    /\ (inv[1].pc # "idle" /\ inv[1].image.isUrl) =>
          inv[1].source = inv[1].image.url

====
